---------------------------- MODULE Spec2Model ----------------------------
(***************************************************************************)
(* ConfidentialBonusPool (src/unnamed/part_000): the funding, commitment,  *)
(* bonus-withdrawal and remainder-withdrawal state machine together with   *)
(* the decryption request / callback protocol it drives.                   *)
(*                                                                         *)
(* Amounts are wei and the encrypted operands are 64-bit words, so values  *)
(* do not fit TLC's machine integers.  Every amount is therefore a natural *)
(* number written as a little-endian sequence of base-2^8 digits without   *)
(* leading zero digits (<< >> is 0); euint64 arithmetic is that arithmetic *)
(* reduced modulo 2^64, as the FHE library computes it.                    *)
(***************************************************************************)
EXTENDS Integers, Sequences, FiniteSets, TLC

(***************************************************************************)
(* Natural numbers of arbitrary size.                                      *)
(***************************************************************************)
Base == 2 ^ 8

RECURSIVE Norm(_)
Norm(s) ==
    IF s = << >> THEN s
    ELSE IF s[Len(s)] = 0 THEN Norm(SubSeq(s, 1, Len(s) - 1))
    ELSE s

RECURSIVE FromNat(_)
FromNat(n) == IF n = 0 THEN << >> ELSE <<n % Base>> \o FromNat(n \div Base)

Limb(a, i) == IF i <= Len(a) THEN a[i] ELSE 0

Rest(a) == IF a = << >> THEN << >> ELSE Tail(a)

RECURSIVE AddCarry(_, _, _)
AddCarry(a, b, c) ==
    IF a = << >> /\ b = << >>
    THEN (IF c = 0 THEN << >> ELSE <<c>>)
    ELSE LET x == Limb(a, 1) + Limb(b, 1) + c
         IN  <<x % Base>> \o AddCarry(Rest(a), Rest(b), x \div Base)

BigAdd(a, b) == AddCarry(a, b, 0)

RECURSIVE BigLess(_, _, _)
\* a < b on the digits 1..i, both of length >= i
BigLess(a, b, i) ==
    IF i = 0 THEN FALSE
    ELSE IF a[i] # b[i] THEN a[i] < b[i]
    ELSE BigLess(a, b, i - 1)

BigLt(a, b) ==
    IF Len(a) # Len(b) THEN Len(a) < Len(b) ELSE BigLess(a, b, Len(a))

BigLeq(a, b) == ~BigLt(b, a)

RECURSIVE SubBorrow(_, _, _)
SubBorrow(a, b, c) ==
    IF a = << >> THEN << >>
    ELSE LET x == a[1] - Limb(b, 1) - c
         IN  IF x < 0
             THEN <<x + Base>> \o SubBorrow(Tail(a), Rest(b), 1)
             ELSE <<x>> \o SubBorrow(Tail(a), Rest(b), 0)

\* a - b, for b <= a
BigSub(a, b) == Norm(SubBorrow(a, b, 0))

RECURSIVE MulDigit(_, _, _)
\* a * k + c for a digit k
MulDigit(a, k, c) ==
    IF a = << >> THEN (IF c = 0 THEN << >> ELSE <<c>>)
    ELSE LET x == a[1] * k + c
         IN  <<x % Base>> \o MulDigit(Tail(a), k, x \div Base)

ShiftDigit(a) == IF a = << >> THEN << >> ELSE <<0>> \o a

RECURSIVE BigMul(_, _)
BigMul(a, b) ==
    IF a = << >> THEN << >>
    ELSE BigAdd(Norm(MulDigit(b, a[1], 0)), ShiftDigit(BigMul(Tail(a), b)))

RECURSIVE DivDigits(_, _, _, _)
\* quotient digits i..1 of a by the small divisor d, r the running remainder
DivDigits(a, i, r, d) ==
    IF i = 0 THEN << >>
    ELSE LET cur == r * Base + a[i]
         IN  DivDigits(a, i - 1, cur % d, d) \o <<cur \div d>>

\* floor(a / d) for a machine-sized divisor d
BigDiv(a, d) == Norm(DivDigits(a, Len(a), 0, d))

(***************************************************************************)
(* Amounts used as inputs.                                                 *)
(***************************************************************************)
Zero == << >>

Million == FromNat(1000000)

\* 3 * 10^16 wei (0.03 ETH)
CentiEth3 == BigMul(FromNat(30000000), FromNat(1000000000))

\* 2^64
Two64 == <<0, 0, 0, 0, 0, 0, 0, 0, 1>>

(***************************************************************************)
(* euint64: an encrypted handle, modelled by the plaintext it encrypts.    *)
(* A handle that was never assigned is uninitialized and reads as 0.       *)
(***************************************************************************)
Uninitialized == [init |-> FALSE, val |-> Zero]

\* FHE.asEuint64 / FHE.fromExternal with a valid input proof
asEuint64(v) == [init |-> TRUE, val |-> v]

\* FHE.isInitialized
isInitialized(h) == h.init

\* the value a decryption of h delivers
Decrypt(h) == h.val

\* reduction to a 64-bit word
Mod64(a) == Norm(SubSeq(a, 1, IF Len(a) < 8 THEN Len(a) ELSE 8))

\* FHE.add: 64-bit addition, wrapping
FheAdd(x, y) == asEuint64(Mod64(BigAdd(x.val, y.val)))

\* FHE.sub: 64-bit subtraction, wrapping
FheSub(x, y) ==
    asEuint64(IF BigLeq(y.val, x.val)
              THEN BigSub(x.val, y.val)
              ELSE BigSub(BigAdd(x.val, Two64), y.val))

\* FHE.mul: 64-bit multiplication, wrapping
FheMul(x, y) == asEuint64(Mod64(BigMul(x.val, y.val)))

\* FHE.div by a plaintext divisor
FheDiv(x, d) == asEuint64(BigDiv(x.val, d))

(***************************************************************************)
(* Addresses, roles and the role percentages set by the constructor.       *)
(***************************************************************************)
manager == "manager"

Addr == {manager, "alice"}

ZeroAddress == "0x0"

Role == {"None", "Intern", "Junior", "Mid", "Senior", "Lead"}

rolePercentage(role) ==
    CASE role = "Intern" -> 200
      [] role = "Junior" -> 500
      [] role = "Mid"    -> 800
      [] role = "Senior" -> 1200
      [] role = "Lead"   -> 2000
      [] OTHER           -> 0

\* the bonus handle withdrawBonus computes
ComputeBonus(performance, role, pool) ==
    LET rolePct      == asEuint64(FromNat(rolePercentage(role)))
        weightedPerf == FheDiv(FheMul(performance, rolePct), 100)
    IN  FheDiv(FheMul(weightedPerf, pool), 10000)

(***************************************************************************)
(* Bounds and input sets.                                                  *)
(***************************************************************************)
\* decryption requests opened in one behaviour
MaxRequests == 3

\* the ids of the requests opened, 0 .. MaxRequests - 1, and one never opened
RequestIds == 0 .. MaxRequests

\* <<msg.value, plaintext of the encrypted amount>> of a fundPool call: no
\* ETH, an honest funding, and one that encrypts twice the ETH sent
FundInputs ==
    {<<Zero, Million>>, <<Million, Million>>,
     <<Million, BigAdd(Million, Million)>>}

\* plaintext of the encrypted score of a commitPerformance call
Scores == {FromNat(80)}

\* roles passed to commitPerformance
CommitRoles == {"None", "Mid"}

\* a cleartext no request of the model decrypts to
ForgedCleartext == FromNat(7)

(***************************************************************************)
(* State.                                                                  *)
(***************************************************************************)
VARIABLES
    actualPool,               \* uint256 public actualPool
    encryptedPool,            \* euint64 public encryptedPool
    employees,                \* mapping(address => Employee)
    employeeList,             \* address[]
    requestToEmployee,        \* mapping(uint256 => address)
    decryptionRequestIdPool,  \* uint256
    decryptionRequestIdBonus, \* uint256
    _status,                  \* reentrancy guard
    counterRequest,           \* decryption oracle: the next request id
    requests,                 \* decryption oracle: id -> the request registered
    frame,                    \* the callback suspended in its ETH transfer, if any
    last,                     \* the latest call that was not reverted at once
    paid,                     \* history: ETH transferred out, per recipient
    funded,                   \* history: ETH taken in by fundPool
    opened,                   \* history: request id -> the call that opened it
    accepted,                 \* history: <<callback, request id>> pairs accepted
    hook                      \* the client hook: its flags and its invocations

contractVars ==
    <<actualPool, encryptedPool, employees, employeeList, requestToEmployee,
      decryptionRequestIdPool, decryptionRequestIdBonus, _status>>

oracleVars == <<counterRequest, requests>>

historyVars == <<paid, funded, opened, accepted>>

\* the contract, the oracle and their history
ledgerVars == <<contractVars, oracleVars, historyVars, frame, last>>

vars == <<ledgerVars, hook>>

(***************************************************************************)
(* The client hook useConfidentialBonusPool: the in-flight flags, kept both *)
(* as refs and as React state, and the invocations of its async functions. *)
(***************************************************************************)
\* the four operations of the hook that send a transaction
HookOps == {"fundPool", "commitPerformance", "withdrawBonus", "withdrawRemaining"}

\* the functions of the hook that keep an in-flight flag
HookFunctions == HookOps \cup {"refreshState"}

\* invocations of the hook's functions in one behaviour
MaxCalls == 3

CallIds == 1 .. MaxCalls

\* where an invocation is suspended: not made yet; at one of the awaits of
\* an operation (encrypt, send, wait); in the reads of refreshState, called
\* on its own (read) or from an operation (refresh); back in the operation
\* after its refreshState call (resume); finished
NotCalled == [op |-> "", pc |-> "new", passed |-> FALSE]

\* the hook as useState / useRef leave it on the first render
HookInit ==
    [ref   |-> [f \in HookFunctions |-> FALSE],
     state |-> [f \in HookFunctions |-> FALSE],
     calls |-> [c \in CallIds |-> NotCalled]]

\* everything a revert of the running transaction restores
Snapshot ==
    [actualPool |-> actualPool, encryptedPool |-> encryptedPool,
     employees |-> employees, employeeList |-> employeeList,
     requestToEmployee |-> requestToEmployee,
     decryptionRequestIdPool |-> decryptionRequestIdPool,
     decryptionRequestIdBonus |-> decryptionRequestIdBonus,
     _status |-> _status, counterRequest |-> counterRequest,
     requests |-> requests, paid |-> paid, funded |-> funded,
     opened |-> opened, accepted |-> accepted]

Restore(s) ==
    /\ actualPool' = s.actualPool
    /\ encryptedPool' = s.encryptedPool
    /\ employees' = s.employees
    /\ employeeList' = s.employeeList
    /\ requestToEmployee' = s.requestToEmployee
    /\ decryptionRequestIdPool' = s.decryptionRequestIdPool
    /\ decryptionRequestIdBonus' = s.decryptionRequestIdBonus
    /\ _status' = s._status
    /\ counterRequest' = s.counterRequest
    /\ requests' = s.requests
    /\ paid' = s.paid
    /\ funded' = s.funded
    /\ opened' = s.opened
    /\ accepted' = s.accepted

NoEmployee ==
    [performance |-> Uninitialized, role |-> "None", hasWithdrawn |-> FALSE,
     hasCommitted |-> FALSE, decryptedBonus |-> Zero]

\* what the history keeps of the call that opens a request: its sender, the
\* ETH sent with it and the two pool balances it found
Opening(sender, value) ==
    [sender |-> sender, value |-> value, actualPool |-> actualPool,
     encryptedPool |-> Decrypt(encryptedPool)]

NotOpened ==
    [sender |-> ZeroAddress, value |-> Zero, actualPool |-> Zero,
     encryptedPool |-> Zero]

NoFrame ==
    [active |-> FALSE, op |-> "", requestId |-> 0, to |-> ZeroAddress,
     amount |-> Zero, saved |-> << >>]

Call(op, sender, role, requestId, err) ==
    [op |-> op, sender |-> sender, role |-> role, requestId |-> requestId,
     err |-> err]

\* callbacks are open to any caller; the caller plays no part in them
AnyCaller == "any"

\* the state the constructor leaves
Init ==
    /\ actualPool = Zero
    /\ encryptedPool = asEuint64(Zero)
    /\ employees = [a \in Addr |-> NoEmployee]
    /\ employeeList = << >>
    /\ requestToEmployee = [i \in RequestIds |-> ZeroAddress]
    /\ decryptionRequestIdPool = 0
    /\ decryptionRequestIdBonus = 0
    /\ _status = 0
    /\ counterRequest = 0
    /\ requests = << >>
    /\ frame = NoFrame
    /\ last = Call("constructor", manager, "None", 0, "ok")
    /\ paid = [a \in Addr |-> Zero]
    /\ funded = Zero
    /\ opened = [i \in RequestIds |-> NotOpened]
    /\ accepted = {}
    /\ hook = HookInit

(***************************************************************************)
(* The decryption oracle as the contract sees it.                          *)
(***************************************************************************)
\* FHE.requestDecryption: registers the handle under the request counter,
\* which counts from 0, and returns that id
requestDecryption(handle, selector) ==
    /\ requests' = [i \in 0 .. counterRequest |->
                       IF i = counterRequest
                       THEN [cleartext |-> Decrypt(handle), selector |-> selector]
                       ELSE requests[i]]
    /\ counterRequest' = counterRequest + 1

\* FHE.checkSignatures: the proof authenticates cleartext for request id
checkSignatures(requestId, cleartext) ==
    /\ requestId \in DOMAIN requests
    /\ requests[requestId].cleartext = cleartext

\* the model opens at most MaxRequests requests
CanRequest == counterRequest < MaxRequests

\* a rejected call reverts: the transaction leaves no trace in the state
Reverts == UNCHANGED vars

(***************************************************************************)
(* 1. fundPool                                                             *)
(***************************************************************************)
\* the modifier without its check
onlyManager_anyone(sender) == TRUE

onlyManager(sender) == sender = manager

fundPoolError(sender, value, inputOk) ==
    IF ~onlyManager(sender) THEN "Only manager"
    ELSE IF value = Zero THEN "Must send ETH"
    ELSE IF ~inputOk THEN "Invalid input proof"
    ELSE "ok"

fundPool(sender, value, encryptedAmount, inputOk) ==
    LET err == fundPoolError(sender, value, inputOk)
        amt == asEuint64(encryptedAmount)
    IN  IF err # "ok"
        THEN Reverts
        ELSE /\ CanRequest
             /\ actualPool' = BigAdd(actualPool, value)
             /\ encryptedPool' = FheAdd(encryptedPool, amt)
             /\ requestDecryption(amt, "callbackVerifyPool")
             /\ decryptionRequestIdPool' = counterRequest
             /\ funded' = BigAdd(funded, value)
             /\ opened' = [opened EXCEPT ![counterRequest] = Opening(sender, value)]
             /\ last' = Call("fundPool", sender, "None", counterRequest, "ok")
             /\ UNCHANGED <<employees, employeeList, requestToEmployee,
                            decryptionRequestIdBonus, _status, frame, paid,
                            accepted>>

callbackVerifyPoolError(requestId, cleartext) ==
    IF ~checkSignatures(requestId, cleartext) THEN "Invalid signatures"
    ELSE IF requestId # decryptionRequestIdPool THEN "Invalid request ID"
    ELSE IF cleartext # actualPool THEN "Encrypted pool mismatch"
    ELSE "ok"

\* callbackVerifyPool undoing the funding when the amounts do not match
callbackVerifyPool_rollback(requestId, cleartext) ==
    LET err == callbackVerifyPoolError(requestId, cleartext)
        call == Call("callbackVerifyPool", AnyCaller, "None", requestId, err)
    IN  IF err = "Encrypted pool mismatch"
        THEN /\ actualPool' = opened[requestId].actualPool
             /\ encryptedPool' = asEuint64(opened[requestId].encryptedPool)
             /\ decryptionRequestIdPool' = 0
             /\ UNCHANGED <<employees, employeeList, requestToEmployee,
                            decryptionRequestIdBonus, _status, oracleVars,
                            frame, last, historyVars>>
        ELSE IF err # "ok"
        THEN Reverts
        ELSE /\ decryptionRequestIdPool' = 0
             /\ accepted' = accepted \cup {<<"callbackVerifyPool", requestId>>}
             /\ last' = call
             /\ UNCHANGED <<actualPool, encryptedPool, employees, employeeList,
                            requestToEmployee, decryptionRequestIdBonus,
                            _status, oracleVars, frame, paid, funded, opened>>

callbackVerifyPool(requestId, cleartext) ==
    LET err == callbackVerifyPoolError(requestId, cleartext)
        call == Call("callbackVerifyPool", AnyCaller, "None", requestId, err)
    IN  IF err # "ok"
        THEN Reverts
        ELSE /\ decryptionRequestIdPool' = 0
             /\ accepted' = accepted \cup {<<"callbackVerifyPool", requestId>>}
             /\ last' = call
             /\ UNCHANGED <<actualPool, encryptedPool, employees, employeeList,
                            requestToEmployee, decryptionRequestIdBonus,
                            _status, oracleVars, frame, paid, funded, opened>>

(***************************************************************************)
(* 2. commitPerformance                                                    *)
(***************************************************************************)
\* commitPerformance without its checks of the sender's record
commitPerformanceError_unchecked(sender, role, inputOk) ==
    IF role = "None" THEN "Invalid role"
    ELSE IF ~isInitialized(encryptedPool) THEN "Pool not funded"
    ELSE IF ~inputOk THEN "Invalid input proof"
    ELSE "ok"

\* commitPerformance without its role check
commitPerformanceError_anyRole(sender, role, inputOk) ==
    IF employees[sender].hasWithdrawn THEN "Already withdrawn"
    ELSE IF ~isInitialized(encryptedPool) THEN "Pool not funded"
    ELSE IF employees[sender].hasCommitted THEN "Already committed performance"
    ELSE IF ~inputOk THEN "Invalid input proof"
    ELSE "ok"

\* commitPerformance without its already-committed check
commitPerformanceError_recommit(sender, role, inputOk) ==
    IF role = "None" THEN "Invalid role"
    ELSE IF employees[sender].hasWithdrawn THEN "Already withdrawn"
    ELSE IF ~isInitialized(encryptedPool) THEN "Pool not funded"
    ELSE IF ~inputOk THEN "Invalid input proof"
    ELSE "ok"

commitPerformanceError(sender, role, inputOk) ==
    IF role = "None" THEN "Invalid role"
    ELSE IF employees[sender].hasWithdrawn THEN "Already withdrawn"
    ELSE IF ~isInitialized(encryptedPool) THEN "Pool not funded"
    ELSE IF employees[sender].hasCommitted THEN "Already committed performance"
    ELSE IF ~inputOk THEN "Invalid input proof"
    ELSE "ok"

commitPerformance(sender, encryptedScore, role, inputOk) ==
    LET err == commitPerformanceError(sender, role, inputOk)
        call == Call("commitPerformance", sender, role, 0, err)
    IN  IF err # "ok"
        THEN Reverts
        ELSE /\ employees' = [employees EXCEPT ![sender] =
                    [performance |-> asEuint64(encryptedScore), role |-> role,
                     hasWithdrawn |-> FALSE, hasCommitted |-> TRUE,
                     decryptedBonus |-> Zero]]
             /\ employeeList' = Append(employeeList, sender)
             /\ last' = call
             /\ UNCHANGED <<actualPool, encryptedPool, requestToEmployee,
                            decryptionRequestIdPool, decryptionRequestIdBonus,
                            _status, oracleVars, historyVars, frame>>

(***************************************************************************)
(* 3. withdrawBonus and its callback                                       *)
(***************************************************************************)
\* withdrawBonus without its already-withdrawn check
withdrawBonusError_again(sender) ==
    IF ~employees[sender].hasCommitted THEN "No performance committed"
    ELSE "ok"

withdrawBonusError(sender) ==
    IF ~employees[sender].hasCommitted THEN "No performance committed"
    ELSE IF employees[sender].hasWithdrawn THEN "Already withdrawn"
    ELSE "ok"

withdrawBonus(sender) ==
    LET err == withdrawBonusError(sender)
        emp == employees[sender]
        bonus == ComputeBonus(emp.performance, emp.role, encryptedPool)
    IN  IF err # "ok"
        THEN Reverts
        ELSE /\ CanRequest
             /\ employees' = [employees EXCEPT ![sender].hasWithdrawn = TRUE]
             /\ requestDecryption(bonus, "callbackPayBonus")
             /\ requestToEmployee' =
                    [requestToEmployee EXCEPT ![counterRequest] = sender]
             /\ decryptionRequestIdBonus' = counterRequest
             /\ opened' = [opened EXCEPT ![counterRequest] = Opening(sender, Zero)]
             /\ last' = Call("withdrawBonus", sender, "None", counterRequest, "ok")
             /\ UNCHANGED <<actualPool, encryptedPool, employeeList,
                            decryptionRequestIdPool, _status, paid, funded,
                            accepted, frame>>

\* the modifier without its entry check
nonReentrant_open == TRUE

\* the nonReentrant modifier's entry check
nonReentrant == _status = 0

\* callbackPayBonus without FHE.checkSignatures
callbackPayBonusError_noProof(requestId, cleartext) ==
    IF ~nonReentrant THEN "Reentrancy"
    ELSE IF requestToEmployee[requestId] = ZeroAddress THEN "Invalid employee"
    ELSE IF cleartext = Zero THEN "Bonus zero"
    ELSE IF BigLt(actualPool, cleartext) THEN "Insufficient pool funds"
    ELSE "ok"

\* callbackPayBonus without its two checks of the bonus
callbackPayBonusError_anyBonus(requestId, cleartext) ==
    IF ~nonReentrant THEN "Reentrancy"
    ELSE IF ~checkSignatures(requestId, cleartext) THEN "Invalid signatures"
    ELSE IF requestToEmployee[requestId] = ZeroAddress THEN "Invalid employee"
    ELSE "ok"

callbackPayBonusError(requestId, cleartext) ==
    IF ~nonReentrant THEN "Reentrancy"
    ELSE IF ~checkSignatures(requestId, cleartext) THEN "Invalid signatures"
    ELSE IF requestToEmployee[requestId] = ZeroAddress THEN "Invalid employee"
    ELSE IF cleartext = Zero THEN "Bonus zero"
    ELSE IF BigLt(actualPool, cleartext) THEN "Insufficient pool funds"
    ELSE "ok"

\* callbackPayBonus settling the bonus recomputed from the pool it finds
callbackPayBonus_recomputed(requestId, cleartext) ==
    LET err == callbackPayBonusError(requestId, cleartext)
        emp == employees[requestToEmployee[requestId]]
        now == Decrypt(ComputeBonus(emp.performance, emp.role, encryptedPool))
    IN  IF err # "ok" \/ now = Zero \/ BigLt(actualPool, now)
        THEN Reverts
        ELSE /\ _status' = 1
             /\ encryptedPool' = FheSub(encryptedPool, asEuint64(now))
             /\ actualPool' = BigSub(actualPool, now)
             /\ frame' = [active |-> TRUE, op |-> "callbackPayBonus",
                          requestId |-> requestId,
                          to |-> requestToEmployee[requestId],
                          amount |-> now, saved |-> Snapshot]
             /\ last' = Call("callbackPayBonus", AnyCaller, "None", requestId,
                             "transfer")
             /\ UNCHANGED <<employees, employeeList, requestToEmployee,
                            decryptionRequestIdPool, decryptionRequestIdBonus,
                            oracleVars, historyVars>>

\* callbackPayBonus up to the ETH transfer, where control passes to the payee
callbackPayBonus(requestId, cleartext) ==
    LET err == callbackPayBonusError(requestId, cleartext)
    IN  IF err # "ok"
        THEN Reverts
        ELSE /\ _status' = 1
             /\ encryptedPool' = FheSub(encryptedPool, asEuint64(cleartext))
             /\ actualPool' = BigSub(actualPool, cleartext)
             /\ frame' = [active |-> TRUE, op |-> "callbackPayBonus",
                          requestId |-> requestId,
                          to |-> requestToEmployee[requestId],
                          amount |-> cleartext, saved |-> Snapshot]
             /\ last' = Call("callbackPayBonus", AnyCaller, "None", requestId,
                             "transfer")
             /\ UNCHANGED <<employees, employeeList, requestToEmployee,
                            decryptionRequestIdPool, decryptionRequestIdBonus,
                            oracleVars, historyVars>>

\* delete requestToEmployee[requestId]
closeRequest(requestId) ==
    [requestToEmployee EXCEPT ![requestId] = ZeroAddress]

\* the end of callbackPayBonus without the release of the guard
payBonusReturn_held(sent) ==
    /\ frame.active
    /\ frame.op = "callbackPayBonus"
    /\ frame' = NoFrame
    /\ IF ~sent
       THEN /\ Restore(frame.saved)
            /\ last' = Call("callbackPayBonus", AnyCaller, "None",
                            frame.requestId, "Failed to send ETH")
       ELSE /\ employees' =
                   [employees EXCEPT ![frame.to].decryptedBonus = frame.amount]
            /\ requestToEmployee' = closeRequest(frame.requestId)
            /\ paid' = [paid EXCEPT ![frame.to] = BigAdd(@, frame.amount)]
            /\ accepted' = accepted \cup {<<"callbackPayBonus", frame.requestId>>}
            /\ last' = Call("callbackPayBonus", AnyCaller, "None",
                            frame.requestId, "ok")
            /\ UNCHANGED <<actualPool, encryptedPool, employeeList,
                           decryptionRequestIdPool, decryptionRequestIdBonus,
                           _status, oracleVars, funded, opened>>

\* callbackPayBonus from the return of the ETH transfer to its end
payBonusReturn(sent) ==
    /\ frame.active
    /\ frame.op = "callbackPayBonus"
    /\ frame' = NoFrame
    /\ IF ~sent
       THEN /\ Restore(frame.saved)
            /\ last' = Call("callbackPayBonus", AnyCaller, "None",
                            frame.requestId, "Failed to send ETH")
       ELSE /\ employees' =
                   [employees EXCEPT ![frame.to].decryptedBonus = frame.amount]
            /\ requestToEmployee' = closeRequest(frame.requestId)
            /\ _status' = 0
            /\ paid' = [paid EXCEPT ![frame.to] = BigAdd(@, frame.amount)]
            /\ accepted' = accepted \cup {<<"callbackPayBonus", frame.requestId>>}
            /\ last' = Call("callbackPayBonus", AnyCaller, "None",
                            frame.requestId, "ok")
            /\ UNCHANGED <<actualPool, encryptedPool, employeeList,
                           decryptionRequestIdPool, decryptionRequestIdBonus,
                           oracleVars, funded, opened>>

(***************************************************************************)
(* 4. withdrawRemaining and its callback                                   *)
(***************************************************************************)
\* withdrawRemaining without its balance check
withdrawRemainingError_anyBalance(sender) ==
    IF ~onlyManager(sender) THEN "Only manager" ELSE "ok"

withdrawRemainingError(sender) ==
    IF ~onlyManager(sender) THEN "Only manager"
    ELSE IF actualPool = Zero THEN "No remaining funds"
    ELSE "ok"

withdrawRemaining(sender) ==
    LET err == withdrawRemainingError(sender)
    IN  IF err # "ok"
        THEN Reverts
        ELSE /\ CanRequest
             /\ requestDecryption(encryptedPool, "callbackWithdrawRemaining")
             /\ decryptionRequestIdPool' = counterRequest
             /\ opened' = [opened EXCEPT ![counterRequest] = Opening(sender, Zero)]
             /\ last' = Call("withdrawRemaining", sender, "None",
                             counterRequest, "ok")
             /\ UNCHANGED <<actualPool, encryptedPool, employees, employeeList,
                            requestToEmployee, decryptionRequestIdBonus,
                            _status, paid, funded, accepted, frame>>

\* callbackWithdrawRemaining without its two checks of the decrypted value
callbackWithdrawRemainingError_anyValue(requestId, cleartext) ==
    IF ~nonReentrant THEN "Reentrancy"
    ELSE IF ~checkSignatures(requestId, cleartext) THEN "Invalid signatures"
    ELSE IF requestId # decryptionRequestIdPool THEN "Invalid request ID"
    ELSE "ok"

callbackWithdrawRemainingError(requestId, cleartext) ==
    IF ~nonReentrant THEN "Reentrancy"
    ELSE IF ~checkSignatures(requestId, cleartext) THEN "Invalid signatures"
    ELSE IF requestId # decryptionRequestIdPool THEN "Invalid request ID"
    ELSE IF BigLt(actualPool, cleartext) THEN "Pool mismatch"
    ELSE IF cleartext = Zero THEN "Nothing to withdraw"
    ELSE "ok"

\* callbackWithdrawRemaining up to the ETH transfer to the manager
callbackWithdrawRemaining(requestId, cleartext) ==
    LET err == callbackWithdrawRemainingError(requestId, cleartext)
    IN  IF err # "ok"
        THEN Reverts
        ELSE /\ _status' = 1
             /\ actualPool' = Zero
             /\ encryptedPool' = asEuint64(Zero)
             /\ decryptionRequestIdPool' = 0
             /\ frame' = [active |-> TRUE, op |-> "callbackWithdrawRemaining",
                          requestId |-> requestId, to |-> manager,
                          amount |-> actualPool, saved |-> Snapshot]
             /\ last' = Call("callbackWithdrawRemaining", AnyCaller, "None",
                             requestId, "transfer")
             /\ UNCHANGED <<employees, employeeList, requestToEmployee,
                            decryptionRequestIdBonus, oracleVars, historyVars>>

\* callbackWithdrawRemaining from the return of the ETH transfer to its end
withdrawRemainingReturn(sent) ==
    /\ frame.active
    /\ frame.op = "callbackWithdrawRemaining"
    /\ frame' = NoFrame
    /\ IF ~sent
       THEN /\ Restore(frame.saved)
            /\ last' = Call("callbackWithdrawRemaining", AnyCaller, "None",
                            frame.requestId, "Failed to send ETH")
       ELSE /\ _status' = 0
            /\ paid' = [paid EXCEPT ![frame.to] = BigAdd(@, frame.amount)]
            /\ accepted' =
                   accepted \cup {<<"callbackWithdrawRemaining", frame.requestId>>}
            /\ last' = Call("callbackWithdrawRemaining", AnyCaller, "None",
                            frame.requestId, "ok")
            /\ UNCHANGED <<actualPool, encryptedPool, employees, employeeList,
                           requestToEmployee, decryptionRequestIdPool,
                           decryptionRequestIdBonus, oracleVars, funded,
                           opened>>

(***************************************************************************)
(* View functions.                                                         *)
(***************************************************************************)
getEmployeeCount == Len(employeeList)

getEmployeeAtError(index) ==
    IF index < Len(employeeList) THEN "ok" ELSE "Index out of bounds"

\* the list is 0-based in the contract
getEmployeeAt(index) == employeeList[index + 1]

(***************************************************************************)
(* Specification.                                                          *)
(***************************************************************************)
\* the cleartexts a callback for requestId is delivered with: the true
\* decryption when the request exists, and a forged one
Cleartexts(requestId) ==
    {ForgedCleartext} \cup
    (IF requestId \in DOMAIN requests
     THEN {requests[requestId].cleartext} ELSE {})

DoFundPool ==
    /\ UNCHANGED hook
    /\ \E sender \in Addr, in \in FundInputs, inputOk \in BOOLEAN :
           fundPool(sender, in[1], in[2], inputOk)

DoCallbackVerifyPool ==
    /\ UNCHANGED hook
    /\ \E id \in RequestIds : \E clear \in Cleartexts(id) :
           callbackVerifyPool(id, clear)

DoCommitPerformance ==
    /\ UNCHANGED hook
    /\ \E sender \in Addr, score \in Scores, role \in CommitRoles,
          inputOk \in BOOLEAN :
           commitPerformance(sender, score, role, inputOk)

DoWithdrawBonus ==
    /\ UNCHANGED hook
    /\ \E sender \in Addr : withdrawBonus(sender)

DoCallbackPayBonus ==
    /\ UNCHANGED hook
    /\ \E id \in RequestIds : \E clear \in Cleartexts(id) :
           callbackPayBonus(id, clear)

DoPayBonusReturn ==
    /\ UNCHANGED hook
    /\ \E sent \in BOOLEAN : payBonusReturn(sent)

DoWithdrawRemaining ==
    /\ UNCHANGED hook
    /\ \E sender \in Addr : withdrawRemaining(sender)

DoCallbackWithdrawRemaining ==
    /\ UNCHANGED hook
    /\ \E id \in RequestIds : \E clear \in Cleartexts(id) :
           callbackWithdrawRemaining(id, clear)

DoWithdrawRemainingReturn ==
    /\ UNCHANGED hook
    /\ \E sent \in BOOLEAN : withdrawRemainingReturn(sent)

Next ==
    \/ DoFundPool
    \/ DoCallbackVerifyPool
    \/ DoCommitPerformance
    \/ DoWithdrawBonus
    \/ DoCallbackPayBonus
    \/ DoPayBonusReturn
    \/ DoWithdrawRemaining
    \/ DoCallbackWithdrawRemaining
    \/ DoWithdrawRemainingReturn

Spec == Init /\ [][Next]_vars

(***************************************************************************)
(* Properties.                                                             *)
(***************************************************************************)
\* no callback is suspended in its transfer: the state is one between
\* transactions
Idle == ~frame.active

Callbacks ==
    {"callbackVerifyPool", "callbackPayBonus", "callbackWithdrawRemaining"}

\* the outcome a delivery of callback cb would have in the current state
CallbackError(cb, requestId, cleartext) ==
    CASE cb = "callbackVerifyPool" ->
             callbackVerifyPoolError(requestId, cleartext)
      [] cb = "callbackPayBonus" ->
             callbackPayBonusError(requestId, cleartext)
      [] cb = "callbackWithdrawRemaining" ->
             callbackWithdrawRemainingError(requestId, cleartext)

\* this step opens a decryption request for the given callback
Opens(selector) ==
    /\ counterRequest' = counterRequest + 1
    /\ requests'[counterRequest].selector = selector

\* C1: between transactions the cleartext balance actualPool equals the
\* plaintext of encryptedPool.
C1_PoolsAgree == Idle => actualPool = Decrypt(encryptedPool)

\* C2: right after an accepted callbackVerifyPool the plaintext of
\* encryptedPool equals actualPool.
C2_VerifiedPoolsAgree ==
    (last.op = "callbackVerifyPool" /\ last.err = "ok")
        => Decrypt(encryptedPool) = actualPool

\* C3: the callback of the outstanding funding request, delivered with the
\* true decryption, is accepted exactly when that decryption equals the ETH
\* sent with the fundPool call that opened the request, and fails with the
\* pool mismatch otherwise.
C3_VerifyAgainstDeclared ==
    \A id \in DOMAIN requests :
        (/\ id = decryptionRequestIdPool
         /\ requests[id].selector = "callbackVerifyPool"
         /\ \A cb \in Callbacks : <<cb, id>> \notin accepted)
        => LET clear == requests[id].cleartext
               err   == callbackVerifyPoolError(id, clear)
           IN  IF clear = opened[id].value
               THEN err = "ok"
               ELSE err = "Encrypted pool mismatch"

\* C4 (rejection): a request id a callback has accepted is rejected by
\* every later delivery to that callback, whatever cleartext comes with it.
C4_Rejected ==
    \A p \in accepted : \A clear \in Cleartexts(p[2]) :
        CallbackError(p[1], p[2], clear) # "ok"

\* the same for the request ids other than 0
C4_RejectedNonZero ==
    \A p \in accepted : \A cb \in Callbacks, clear \in Cleartexts(p[2]) :
        p[2] # 0 => CallbackError(cb, p[2], clear) # "ok"

\* C4: a request id a callback has accepted is rejected by every later
\* delivery to that callback, whatever cleartext comes with it, and no
\* callback is ever entered again for a pair already accepted, so no
\* settlement is applied twice.
C4_SettledOnce ==
    [](C4_Rejected)
    /\ [][(frame'.active /\ ~frame.active)
              => <<frame'.op, frame'.requestId>> \notin accepted]_vars

\* C5 as stated: once an address has committed, every further
\* commitPerformance of it fails with the already-committed error.
C5_AlwaysAlreadyCommitted ==
    \A a \in Addr, role \in Role, inputOk \in BOOLEAN :
        employees[a].hasCommitted
            => commitPerformanceError(a, role, inputOk)
                   = "Already committed performance"

\* C5 as amended: once an address has committed, every further
\* commitPerformance of it is rejected: with the invalid-role error when the
\* role is None, else with the already-withdrawn error when the address has
\* called withdrawBonus, else with the already-committed error.
C5_NeverCommitsAgain ==
    \A a \in Addr, role \in Role, inputOk \in BOOLEAN :
        employees[a].hasCommitted
            => commitPerformanceError(a, role, inputOk) =
                   (IF role = "None" THEN "Invalid role"
                    ELSE IF employees[a].hasWithdrawn THEN "Already withdrawn"
                    ELSE "Already committed performance")

\* one address has committed and not withdrawn, another has committed and
\* withdrawn
C5_Witness ==
    /\ Idle
    /\ \E a \in Addr :
          employees[a].hasCommitted /\ ~employees[a].hasWithdrawn
    /\ \E a \in Addr :
          employees[a].hasCommitted /\ employees[a].hasWithdrawn

\* commitPerformance with role None fails with the invalid-role error in
\* every state, for every caller and every score
C6_NoneRejected ==
    \A a \in Addr, inputOk \in BOOLEAN :
        commitPerformanceError(a, "None", inputOk) = "Invalid role"

\* C6: commitPerformance with role None fails with the invalid-role error
\* in every state, for every caller and every score, and no step that
\* changes a participant record or the enumeration records a participant
\* with role None.
C6_NoneNeverCommits ==
    [](C6_NoneRejected)
    /\ [][\A a \in Addr :
            (employees'[a] # employees[a] \/ employeeList' # employeeList)
                => (employees'[a].hasCommitted => employees'[a].role # "None")]_vars

\* a caller who could commit with a valid role is refused with None
C6_Witness ==
    /\ funded # Zero
    /\ \E a \in Addr :
          /\ commitPerformanceError(a, "Mid", TRUE) = "ok"
          /\ commitPerformanceError(a, "None", TRUE) = "Invalid role"
    /\ \E a \in Addr : employees[a].hasCommitted

\* C7: while fundPool has never succeeded, commitPerformance with a valid
\* role fails with the pool-not-funded error and no participant is recorded.
C7_NoCommitBeforeFunding ==
    funded = Zero
        => /\ employeeList = << >>
           /\ \A a \in Addr : ~employees[a].hasCommitted

\* the bonus of the specification, in exact arithmetic:
\* floor(floor(score * basisPoints / 100) * pool / 10000)
ExactBonus(score, role, pool) ==
    BigDiv(BigMul(BigDiv(BigMul(score, FromNat(rolePercentage(role))), 100),
                  pool),
           10000)

\* entering callbackPayBonus for a request opened on an honestly funded
\* pool P lowers actualPool by the exact bonus
C8_Debit ==
    (/\ ~frame.active
     /\ frame'.active
     /\ frame'.op = "callbackPayBonus"
     /\ opened[frame'.requestId].actualPool
            = opened[frame'.requestId].encryptedPool)
    => LET e == employees[frame'.to]
           P == opened[frame'.requestId].actualPool
       IN  BigAdd(actualPool', ExactBonus(e.performance.val, e.role, P))
               = actualPool

\* the transfer that succeeds pays the participant the exact bonus and
\* records it as decryptedBonus
C8_Payment ==
    (/\ frame.active
     /\ frame.op = "callbackPayBonus"
     /\ ~frame'.active
     /\ last'.err = "ok"
     /\ opened[frame.requestId].actualPool
            = opened[frame.requestId].encryptedPool)
    => LET e == employees[frame.to]
           P == opened[frame.requestId].actualPool
           x == ExactBonus(e.performance.val, e.role, P)
       IN  /\ paid'[frame.to] = BigAdd(paid[frame.to], x)
           /\ employees'[frame.to].decryptedBonus = x

\* C8: when withdrawBonus finds the pool honestly funded to P (both
\* balances equal P), the accepted callbackPayBonus carrying the true
\* decryption lowers actualPool by floor(floor(s*b/100)*P/10000) and pays
\* the participant that amount.
C8_ExactBonusPaid == [][C8_Debit /\ C8_Payment]_vars

(***************************************************************************)
(* The bonus round on its own: the pool is funded honestly to one of       *)
(* BonusPools, both addresses have committed a score of BonusScores with a *)
(* role, and each calls withdrawBonus and has its bonus settled.           *)
(***************************************************************************)
\* 10^16 wei (0.01 ETH)
CentiEth == BigMul(FromNat(10000000), FromNat(1000000000))

BonusPools == {Million, CentiEth, CentiEth3}

BonusScores == {FromNat(n) : n \in {0, 1, 50, 80, 90, 100}}

Committed(score, role) ==
    [performance |-> asEuint64(score), role |-> role, hasWithdrawn |-> FALSE,
     hasCommitted |-> TRUE, decryptedBonus |-> Zero]

InitBonus ==
    \E pool \in BonusPools, s1 \in BonusScores, s2 \in BonusScores,
       r1 \in Role \ {"None"}, r2 \in Role \ {"None"} :
        /\ actualPool = pool
        /\ encryptedPool = asEuint64(pool)
        /\ employees = [a \in Addr |-> IF a = manager THEN Committed(s1, r1)
                                                     ELSE Committed(s2, r2)]
        /\ employeeList = <<manager, "alice">>
        /\ requestToEmployee = [i \in RequestIds |-> ZeroAddress]
        /\ decryptionRequestIdPool = 0
        /\ decryptionRequestIdBonus = 0
        /\ _status = 0
        /\ counterRequest = 1
        /\ requests = [i \in {0} |-> [cleartext |-> pool,
                                      selector |-> "callbackVerifyPool"]]
        /\ frame = NoFrame
        /\ last = Call("commitPerformance", "alice", r2, 0, "ok")
        /\ paid = [a \in Addr |-> Zero]
        /\ funded = pool
        /\ opened = [i \in RequestIds |->
                        IF i = 0 THEN [sender |-> manager, value |-> pool,
                                       actualPool |-> Zero,
                                       encryptedPool |-> Zero]
                                 ELSE NotOpened]
        /\ accepted = {}
        /\ hook = HookInit

NextBonus ==
    \/ DoWithdrawBonus
    \/ DoCallbackPayBonus
    \/ DoPayBonusReturn

SpecBonus == InitBonus /\ [][NextBonus]_vars

\* the rank of a role in the enum
RoleRank(role) ==
    CASE role = "None"   -> 0
      [] role = "Intern" -> 1
      [] role = "Junior" -> 2
      [] role = "Mid"    -> 3
      [] role = "Senior" -> 4
      [] role = "Lead"   -> 5

\* the bonus requests opened so far
BonusRequests ==
    {i \in DOMAIN requests : requests[i].selector = "callbackPayBonus"}

\* C9: for one pool balance, the bonus withdrawBonus computes does not
\* decrease when the score grows at the same role, nor when the role rank
\* grows at the same score.
C9_Monotonic ==
    \A i \in BonusRequests, j \in BonusRequests :
        LET ei == employees[requestToEmployee[i]]
            ej == employees[requestToEmployee[j]]
            le == BigLeq(requests[i].cleartext, requests[j].cleartext)
        IN  opened[i].encryptedPool = opened[j].encryptedPool
            => /\ (ei.role = ej.role
                      /\ BigLeq(ei.performance.val, ej.performance.val)) => le
               /\ (ei.performance.val = ej.performance.val
                      /\ RoleRank(ei.role) <= RoleRank(ej.role)) => le

\* withdrawRemaining by the manager while actualPool is 0 fails with the
\* no-remaining-funds error
C10_Rejected ==
    actualPool = Zero
        => withdrawRemainingError(manager) = "No remaining funds"

\* C10: withdrawRemaining by the manager while actualPool is 0 fails with
\* the no-remaining-funds error, and no step opens a remainder request
\* while actualPool is 0.
C10_NothingToWithdraw ==
    [](C10_Rejected)
    /\ [][Opens("callbackWithdrawRemaining") => actualPool # Zero]_vars

\* a pool that was funded and then paid out in full
C10_Witness ==
    /\ Idle
    /\ funded # Zero
    /\ actualPool = Zero
    /\ paid[manager] # Zero
    /\ withdrawRemainingError(manager) = "No remaining funds"

\* the bonus requests whose participant is still on record, with the true
\* decryption the oracle holds for each
OpenBonusRequests ==
    {i \in DOMAIN requests : requestToEmployee[i] # ZeroAddress}

\* a step enters callbackPayBonus and reaches its transfer
EntersPayBonus ==
    ~frame.active /\ frame'.active /\ frame'.op = "callbackPayBonus"

\* between transactions, the callback of an open bonus request is rejected
\* with the zero-bonus error when the decryption is 0 and with the
\* insufficient-funds error when it exceeds actualPool
C11_Rejected ==
    \A i \in OpenBonusRequests :
        LET clear == requests[i].cleartext
            err   == callbackPayBonusError(i, clear)
        IN  Idle =>
              /\ clear = Zero => err = "Bonus zero"
              /\ BigLt(actualPool, clear) => err = "Insufficient pool funds"

\* C11: callbackPayBonus for an open bonus request is rejected with the
\* insufficient-funds error when the decrypted value exceeds actualPool and
\* with the zero-bonus error when it is 0, and no step enters the transfer
\* of callbackPayBonus with such a value, so that nothing is debited or paid.
C11_BonusChecked ==
    [](C11_Rejected)
    /\ [][EntersPayBonus
              => /\ frame'.amount # Zero
                 /\ BigLeq(frame'.amount, actualPool)
                 /\ BigAdd(actualPool', frame'.amount) = actualPool]_vars

\* an open bonus request decrypts to more than the pool holds
C11_Witness ==
    /\ Idle
    /\ \E i \in OpenBonusRequests :
          /\ BigLt(actualPool, requests[i].cleartext)
          /\ callbackPayBonusError(i, requests[i].cleartext)
                 = "Insufficient pool funds"

\* an open bonus request decrypts to 0
C11_ZeroBonusOpen ==
    /\ Idle
    /\ \E i \in OpenBonusRequests :
          /\ requests[i].cleartext = Zero
          /\ callbackPayBonusError(i, requests[i].cleartext) = "Bonus zero"

\* the bonus requests the address has opened
BonusRequestsOf(a) == {i \in BonusRequests : opened[i].sender = a}

\* C12: each address opens at most one bonus request: once its withdrawBonus
\* has opened one, every further withdrawBonus of the address fails with the
\* already-withdrawn error, whether the request is still waiting for its
\* callback or has been paid, and withdrawBonus of an address that has not
\* committed fails with the nothing-committed error.
C12_OneBonusRequest ==
    \A a \in Addr :
        /\ Cardinality(BonusRequestsOf(a)) <= 1
        /\ BonusRequestsOf(a) # {} => withdrawBonusError(a) = "Already withdrawn"
        /\ ~employees[a].hasCommitted
               => withdrawBonusError(a) = "No performance committed"

\* one address has been paid its bonus, the other still waits for the
\* callback of its request, and both are refused a second request
C12_Witness ==
    /\ Idle
    /\ \E a \in Addr, b \in Addr :
          /\ \E i \in BonusRequestsOf(a) : <<"callbackPayBonus", i>> \in accepted
          /\ \E i \in BonusRequestsOf(b) :
                 /\ <<"callbackPayBonus", i>> \notin accepted
                 /\ requestToEmployee[i] = b
          /\ withdrawBonusError(a) = "Already withdrawn"
          /\ withdrawBonusError(b) = "Already withdrawn"

\* the purpose a call or a callback serves
Purpose(op) ==
    CASE op \in {"fundPool", "callbackVerifyPool"} -> "funding"
      [] op \in {"withdrawBonus", "callbackPayBonus"} -> "bonus"
      [] op \in {"withdrawRemaining", "callbackWithdrawRemaining"} -> "remainder"
      [] OTHER -> "none"

\* the outcome of delivering request id to the callback it was opened for,
\* with its true decryption
Outcome(id) ==
    CallbackError(requests[id].selector, id, requests[id].cleartext)

\* C13: a request whose own callback would be accepted stays so across
\* every transaction that opens or settles a request of another purpose
\* (the transactions that complete in one step: fundPool, withdrawBonus,
\* withdrawRemaining and callbackVerifyPool).
C13_NoInterference ==
    [][\A id \in DOMAIN requests :
          (/\ Idle /\ Idle'
           /\ Outcome(id) = "ok"
           /\ Purpose(last'.op) \notin {"none", Purpose(requests[id].selector)})
          => Outcome(id)' = "ok"]_vars

\* the requests opened for callback cb whose delivery, with the true
\* decryption, would be accepted now
Resolvable(cb) ==
    {i \in DOMAIN requests : requests[i].selector = cb /\ Outcome(i) = "ok"}

\* C14: between transactions, each of the three callbacks has at most one
\* request id it would accept; two bonus requests of two participants are
\* never resolvable together.
C14_OneResolvable ==
    Idle => \A cb \in Callbacks : Cardinality(Resolvable(cb)) <= 1

\* the same for the two callbacks that go by the pool slot
C14_OnePoolResolvable ==
    Idle => \A cb \in Callbacks \ {"callbackPayBonus"} :
                Cardinality(Resolvable(cb)) <= 1

\* the cleartexts a delivery may carry: a forged one and the decryption of
\* any request, its own or another
AllCleartexts ==
    {ForgedCleartext} \cup {requests[i].cleartext : i \in DOMAIN requests}

\* the step is the given callback called with (id, clear), and it changes
\* the state
Delivers(cb, id, clear) ==
    /\ vars' # vars
    /\ CASE cb = "callbackVerifyPool" -> callbackVerifyPool(id, clear)
         [] cb = "callbackPayBonus" -> callbackPayBonus(id, clear)
         [] cb = "callbackWithdrawRemaining" ->
                callbackWithdrawRemaining(id, clear)

\* a delivery the proof does not authenticate is rejected by each callback
C15_Rejected ==
    \A cb \in Callbacks, id \in RequestIds, clear \in AllCleartexts :
        ~checkSignatures(id, clear) => CallbackError(cb, id, clear) # "ok"

\* C15: each of the three callbacks rejects a delivery whose proof does not
\* authenticate the cleartext for the request id, and no step of a callback
\* that changes any variable was called with such a delivery (a callback
\* that is not reverted at once leaves its name and request id in last).
C15_ProofRequired ==
    [](C15_Rejected)
    /\ [][last'.op \in Callbacks
              => \A clear \in AllCleartexts :
                     Delivers(last'.op, last'.requestId, clear)
                         => checkSignatures(last'.requestId, clear)]_vars

\* a bonus request and a pool request are both resolvable with their true
\* decryptions and refused with the forged one and with each other's
C15_Witness ==
    /\ Idle
    /\ \E i \in Resolvable("callbackPayBonus"),
          j \in Resolvable("callbackVerifyPool") :
          /\ requests[i].cleartext # requests[j].cleartext
          /\ callbackPayBonusError(i, ForgedCleartext) = "Invalid signatures"
          /\ callbackPayBonusError(i, requests[j].cleartext)
                 = "Invalid signatures"
          /\ callbackVerifyPoolError(j, ForgedCleartext) = "Invalid signatures"

\* C16: between transactions, a callback accepts an authentic delivery only
\* for a request that was opened for that callback and that no callback has
\* settled yet; a request never opened is authentic for no cleartext.
C16_OwnPurposeOnly ==
    Idle =>
      \A cb \in Callbacks, id \in RequestIds, clear \in AllCleartexts :
          (checkSignatures(id, clear) /\ CallbackError(cb, id, clear) = "ok")
              => /\ requests[id].selector = cb
                 /\ \A c \in Callbacks : <<c, id>> \notin accepted

\* the same for the request ids other than 0
C16_OwnPurposeOnlyNonZero ==
    Idle =>
      \A cb \in Callbacks, id \in RequestIds \ {0}, clear \in AllCleartexts :
          (checkSignatures(id, clear) /\ CallbackError(cb, id, clear) = "ok")
              => /\ requests[id].selector = cb
                 /\ \A c \in Callbacks : <<c, id>> \notin accepted

\* the flags of every address that are set in the records before are set in
\* the records after
FlagsKept(before, after) ==
    \A a \in Addr :
        /\ before[a].hasCommitted => after[a].hasCommitted
        /\ before[a].hasWithdrawn => after[a].hasWithdrawn

\* the step ends the transaction of a callback that was suspended in its
\* transfer
EndsTransaction == frame.active /\ ~frame'.active

\* hasWithdrawn is set only on a record that has committed
C17_WithdrawnOnlyCommitted ==
    \A a \in Addr : employees[a].hasWithdrawn => employees[a].hasCommitted

\* C17: hasCommitted and hasWithdrawn, once set for an address, stay set:
\* every step keeps them, and a transaction that ends, by return or by
\* revert, leaves set every flag that was set when it began; hasWithdrawn
\* is never set while hasCommitted is not.
C17_FlagsMonotonic ==
    [](C17_WithdrawnOnlyCommitted)
    /\ [][IF EndsTransaction
          THEN FlagsKept(frame.saved.employees, employees')
          ELSE FlagsKept(employees, employees')]_vars

\* a bonus callback has been reverted by its failed transfer and the
\* participant's flags are still set; the other address has committed and
\* is refused a second commit
C17_Witness ==
    /\ Idle
    /\ last.op = "callbackPayBonus"
    /\ last.err = "Failed to send ETH"
    /\ \E a \in Addr, b \in Addr :
          /\ a # b
          /\ requestToEmployee[last.requestId] = a
          /\ employees[a].hasCommitted /\ employees[a].hasWithdrawn
          /\ employees[b].hasCommitted /\ ~employees[b].hasWithdrawn
          /\ commitPerformanceError(b, "Mid", TRUE)
                 = "Already committed performance"

\* a step enters callbackWithdrawRemaining and reaches its transfer
EntersWithdrawRemaining ==
    ~frame.active /\ frame'.active /\ frame'.op = "callbackWithdrawRemaining"

\* the transfer of callbackWithdrawRemaining returns with success
WithdrawRemainingSent ==
    /\ frame.active
    /\ frame.op = "callbackWithdrawRemaining"
    /\ ~frame'.active
    /\ last'.err = "ok"

\* between transactions, an authentic delivery for the id in the pool slot
\* is rejected with the pool-mismatch error when the decrypted value exceeds
\* actualPool and with the nothing-to-withdraw error when it is 0
C18_Rejected ==
    Idle =>
      \A id \in DOMAIN requests :
          LET clear == requests[id].cleartext
              err   == callbackWithdrawRemainingError(id, clear)
          IN  id = decryptionRequestIdPool =>
                /\ BigLt(actualPool, clear) => err = "Pool mismatch"
                /\ clear = Zero => err = "Nothing to withdraw"

C18_MismatchOpen ==
    /\ Idle
    /\ \E id \in DOMAIN requests :
          /\ id = decryptionRequestIdPool
          /\ requests[id].selector = "callbackWithdrawRemaining"
          /\ BigLt(actualPool, requests[id].cleartext)

\* an authentic delivery of 0 for the id in the pool slot is at hand
C18_ZeroOpen ==
    /\ Idle
    /\ \E id \in DOMAIN requests :
          /\ id = decryptionRequestIdPool
          /\ requests[id].cleartext = Zero

\* what the claim says of the state after the callback, taken for every
\* accepted callback, the manager's calls during the transfer included
C18_EmptyAfterwards ==
    (Idle /\ last.op = "callbackWithdrawRemaining" /\ last.err = "ok")
        => /\ actualPool = Zero
           /\ Decrypt(encryptedPool) = Zero
           /\ decryptionRequestIdPool = 0

\* fundPool and withdrawRemaining by another address than the manager fail
\* with the only-manager error, whatever is sent
C19_Rejected ==
    \A a \in Addr \ {manager} :
        /\ withdrawRemainingError(a) = "Only manager"
        /\ \A in \in FundInputs, inputOk \in BOOLEAN :
               fundPoolError(a, in[1], inputOk) = "Only manager"

\* C19: fundPool and withdrawRemaining called by another address than the
\* manager are rejected in every state, and no step in which either of them
\* changes a variable or opens a request was called by such an address (a
\* call that is not reverted leaves its name in last).
C19_OnlyManager ==
    [](C19_Rejected)
    /\ [][/\ last'.op = "withdrawRemaining"
              => \A a \in Addr :
                     (withdrawRemaining(a) /\ vars' # vars) => a = manager
          /\ last'.op = "fundPool"
              => \A a \in Addr, in \in FundInputs, inputOk \in BOOLEAN :
                     (fundPool(a, in[1], in[2], inputOk) /\ vars' # vars)
                         => a = manager
          /\ (Opens("callbackVerifyPool") \/ Opens("callbackWithdrawRemaining"))
              => last'.sender = manager]_vars

\* the pool holds funds the manager may add to or withdraw, and another
\* address, a participant, is refused both
C19_Witness ==
    /\ Idle
    /\ withdrawRemainingError(manager) = "ok"
    /\ fundPoolError(manager, Million, TRUE) = "ok"
    /\ \E a \in Addr \ {manager} :
          /\ employees[a].hasCommitted
          /\ withdrawRemainingError(a) = "Only manager"
          /\ fundPoolError(a, Million, TRUE) = "Only manager"

\* the requests opened by fundPool
FundingRequests ==
    {i \in DOMAIN requests : requests[i].selector = "callbackVerifyPool"}

\* the requests that were written to the pool slot when opened
PoolRequests ==
    {i \in DOMAIN requests : requests[i].selector # "callbackPayBonus"}

\* funding request i was not settled by any callback and fundPool has
\* opened a later request
Superseded(i) ==
    /\ \A cb \in Callbacks : <<cb, i>> \notin accepted
    /\ \E j \in FundingRequests : i < j

\* the verdict of callbackVerifyPool on the true decryption of request id
VerifyOutcome(id) == callbackVerifyPoolError(id, requests[id].cleartext)

\* C20: once fundPool has opened a second request while the first was not
\* settled, callbackVerifyPool rejects the first request's id in every
\* later state, and the only id it can accept is the pool request opened
\* last.
C20_FirstUnresolvable ==
    Idle =>
      \A i \in FundingRequests :
          Superseded(i) =>
              /\ VerifyOutcome(i) # "ok"
              /\ \A k \in DOMAIN requests :
                     VerifyOutcome(k) = "ok"
                         => \A j \in PoolRequests : j <= k

\* the same for the request ids other than 0
C20_FirstUnresolvableNonZero ==
    Idle =>
      \A i \in FundingRequests \ {0} :
          Superseded(i) =>
              /\ VerifyOutcome(i) # "ok"
              /\ \A k \in DOMAIN requests \ {0} :
                     VerifyOutcome(k) = "ok"
                         => \A j \in PoolRequests : j <= k

\* a superseded funding request with an id other than 0, refused as an
\* invalid request id while the one that superseded it would be accepted
C20_SupersededOpen ==
    /\ Idle
    /\ \E i \in FundingRequests \ {0}, j \in FundingRequests :
          /\ Superseded(i)
          /\ i < j
          /\ VerifyOutcome(i) = "Invalid request ID"
          /\ VerifyOutcome(j) = "ok"

\* C21: while callbackPayBonus is at its ETH transfer, the request it
\* settles no longer resolves to a participant.
C21_ClosedBeforeTransfer ==
    (frame.active /\ frame.op = "callbackPayBonus")
        => requestToEmployee[frame.requestId] = ZeroAddress

\* the two callbacks that make a transfer
PayingCallbacks == {"callbackPayBonus", "callbackWithdrawRemaining"}

\* while a callback is at its transfer, every delivery to a paying callback
\* is rejected by the guard
C22_Rejected ==
    frame.active =>
        \A cb \in PayingCallbacks, id \in RequestIds, clear \in AllCleartexts :
            CallbackError(cb, id, clear) = "Reentrancy"

\* C22: while callbackPayBonus or callbackWithdrawRemaining is at its ETH
\* transfer, every nested callbackPayBonus and callbackWithdrawRemaining,
\* for the same or another request id, is rejected, and no step taken
\* during the transfer starts a second transfer, pays anything or settles a
\* request.
C22_NoNestedSettlement ==
    [](C22_Rejected)
    /\ [][(frame.active /\ frame'.active)
              => /\ frame' = frame
                 /\ paid' = paid
                 /\ \A p \in accepted' \ accepted : p[1] \notin PayingCallbacks]_vars

\* callbackPayBonus is at its transfer; the request it settles is still on
\* record, a second bonus request is open and payable, and the guard
\* refuses both
C22_Witness ==
    /\ frame.active
    /\ frame.op = "callbackPayBonus"
    /\ \E j \in OpenBonusRequests :
          /\ j # frame.requestId
          /\ requests[j].cleartext # Zero
          /\ BigLeq(requests[j].cleartext, actualPool)
          /\ callbackPayBonusError(j, requests[j].cleartext) = "Reentrancy"
    /\ frame.requestId \in OpenBonusRequests
    /\ callbackPayBonusError(frame.requestId, frame.amount) = "Reentrancy"
    /\ callbackWithdrawRemainingError(decryptionRequestIdPool,
                                      requests[decryptionRequestIdPool].cleartext)
           = "Reentrancy"

\* C23: whenever no callback is executing the reentrancy status is 0, after
\* accepted, rejected and reverted callbacks alike, and it is 1 exactly
\* while a callback is at its transfer; between transactions no callback is
\* ever refused by the guard.
C23_StatusReleased ==
    /\ Idle <=> _status = 0
    /\ Idle => \A cb \in Callbacks, id \in RequestIds, clear \in AllCleartexts :
                   CallbackError(cb, id, clear) # "Reentrancy"

\* a bonus callback has been reverted by its failed transfer, another one
\* has been paid, and the reverted request can be delivered again
C23_Witness ==
    /\ Idle
    /\ _status = 0
    /\ last.op = "callbackPayBonus"
    /\ last.err = "Failed to send ETH"
    /\ \E p \in accepted : p[1] = "callbackPayBonus"
    /\ last.requestId \in Resolvable("callbackPayBonus")

\* C24: every step that changes an address's decryptedBonus is the step in
\* which its hasWithdrawn changes from false to true.
C24_BonusWrittenAtWithdrawal ==
    [][\A a \in Addr :
          employees'[a].decryptedBonus # employees[a].decryptedBonus
              => ~employees[a].hasWithdrawn /\ employees'[a].hasWithdrawn]_vars

\* the addresses in the enumeration
Listed == {employeeList[i] : i \in 1 .. Len(employeeList)}

\* list s is an initial part of list t
IsPrefix(s, t) ==
    /\ Len(s) <= Len(t)
    /\ \A i \in 1 .. Len(s) : s[i] = t[i]

\* the enumeration holds the committed addresses, each once, and the two
\* views agree with it: every index below the count returns its entry and
\* every index from the count on is rejected
C25_ListsCommitted ==
    /\ Listed = {a \in Addr : employees[a].hasCommitted}
    /\ Cardinality(Listed) = Len(employeeList)
    /\ getEmployeeCount = Len(employeeList)
    /\ \A i \in 0 .. Cardinality(Addr) :
           IF i < getEmployeeCount
           THEN /\ getEmployeeAtError(i) = "ok"
                /\ getEmployeeAt(i) = employeeList[i + 1]
           ELSE getEmployeeAtError(i) = "Index out of bounds"

\* C25: the enumeration holds exactly the addresses that have committed,
\* each once; a commitPerformance that succeeds appends its sender, every
\* other step leaves the list as it is, and a transaction that ends leaves
\* every entry that was there when it began in its place; getEmployeeAt with
\* an index not below getEmployeeCount is rejected.
C25_EnumerationStable ==
    [](C25_ListsCommitted)
    /\ [][/\ IF EndsTransaction
             THEN IsPrefix(frame.saved.employeeList, employeeList')
             ELSE IsPrefix(employeeList, employeeList')
          /\ (~EndsTransaction /\ employeeList' # employeeList)
                 => /\ last'.op = "commitPerformance"
                    /\ employeeList' = Append(employeeList, last'.sender)]_vars

\* both addresses are listed, in the order they committed (alice first),
\* and the index after the last is rejected
C25_Witness ==
    /\ Idle
    /\ employeeList = <<"alice", manager>>
    /\ getEmployeeCount = 2
    /\ getEmployeeAt(0) = "alice"
    /\ getEmployeeAt(1) = manager
    /\ getEmployeeAtError(2) = "Index out of bounds"
    /\ \E a \in Addr : employees[a].hasWithdrawn

\* the funding request the latest call opened is refused for its amounts
MismatchAfterFunding ==
    /\ last.op = "fundPool"
    /\ VerifyOutcome(last.requestId) = "Encrypted pool mismatch"

\* while the latest call that was not reverted is a fundPool whose request
\* is refused with the pool mismatch, both balances hold what that fundPool
\* found plus what it added, and the pool slot holds its request
C26_Kept ==
    MismatchAfterFunding =>
        LET id == last.requestId
        IN  /\ decryptionRequestIdPool = id
            /\ actualPool = BigAdd(opened[id].actualPool, opened[id].value)
            /\ encryptedPool = FheAdd(asEuint64(opened[id].encryptedPool),
                                      asEuint64(requests[id].cleartext))

\* C26: a callbackVerifyPool rejected with the pool mismatch rolls nothing
\* back: the step changes neither balance nor the pool slot, and afterwards
\* actualPool and encryptedPool still include the funding and the slot
\* still holds the rejected request's id.
C26_CreditNotRolledBack ==
    [](C26_Kept)
    /\ [][last'.op = "fundPool"
              => \A id \in DOMAIN requests :
                     (/\ VerifyOutcome(id) = "Encrypted pool mismatch"
                      /\ callbackVerifyPool(id, requests[id].cleartext))
                     => UNCHANGED <<actualPool, encryptedPool,
                                    decryptionRequestIdPool>>]_vars

\* a funding that encrypts twice the ETH sent is outstanding and its
\* callback is refused with the pool mismatch
C26_Witness ==
    /\ Idle
    /\ MismatchAfterFunding
    /\ requests[last.requestId].cleartext # opened[last.requestId].value
    /\ actualPool # Zero
    /\ BigLt(actualPool, Decrypt(encryptedPool))

\* the proof check and the request lookup of the callback entered by this
\* step have passed
EnteredAuthentic ==
    \/ /\ EntersPayBonus
       /\ checkSignatures(frame'.requestId, frame'.amount)
       /\ requestToEmployee[frame'.requestId] # ZeroAddress
       /\ requestToEmployee[frame'.requestId] = frame'.to
    \/ /\ EntersWithdrawRemaining
       /\ frame'.requestId \in DOMAIN requests
       /\ frame'.requestId = decryptionRequestIdPool

TotalPaid == BigAdd(paid[manager], paid["alice"])

\* the ETH a suspended callback has debited and is transferring
InTransfer == IF frame.active THEN frame.amount ELSE Zero

\* C28: in every reachable state the ETH taken in by fundPool equals
\* actualPool plus all bonuses and remainders paid out (plus the amount a
\* running callback has debited and is transferring), and actualPool is
\* never debited by more than it holds.
C28_FundsConserved ==
    [](funded = BigAdd(BigAdd(actualPool, TotalPaid), InTransfer))
    /\ [][(EntersPayBonus \/ EntersWithdrawRemaining)
              => /\ BigLeq(frame'.amount, actualPool)
                 /\ BigAdd(actualPool', frame'.amount) = actualPool]_vars

\* a pool that was funded, paid a bonus to the participant and the
\* remainder to the manager, and is empty
C28_Witness ==
    /\ Idle
    /\ funded # Zero
    /\ paid["alice"] # Zero
    /\ paid[manager] # Zero
    /\ actualPool = Zero
    /\ funded = TotalPaid
    /\ \E p \in accepted : p[1] = "callbackPayBonus"
    /\ \E p \in accepted :
          /\ p[1] = "callbackWithdrawRemaining"
          /\ requests[p[2]].selector = "callbackWithdrawRemaining"

\* the bonus requests of the address whose payment has been made
PaidBonusRequests(a) ==
    {i \in BonusRequestsOf(a) : <<"callbackPayBonus", i>> \in accepted}

\* the sum of the amounts the oracle holds for a set of requests
RECURSIVE SumCleartexts(_)
SumCleartexts(S) ==
    IF S = {} THEN Zero
    ELSE LET i == CHOOSE x \in S : TRUE
         IN  BigAdd(requests[i].cleartext, SumCleartexts(S \ {i}))

\* all bonus ETH transferred to the address
BonusPaid(a) == SumCleartexts(PaidBonusRequests(a))

\* C29: in every reachable state, every address has been paid at most one
\* bonus, its decryptedBonus equals the bonus ETH transferred to it (0 when
\* none was), and a non-zero decryptedBonus comes with hasWithdrawn.
C29_BonusPaidOnce ==
    \A a \in Addr :
        /\ Cardinality(PaidBonusRequests(a)) <= 1
        /\ employees[a].decryptedBonus = BonusPaid(a)
        /\ a # manager => paid[a] = BonusPaid(a)
        /\ employees[a].decryptedBonus # Zero => employees[a].hasWithdrawn

\* one participant has been paid its bonus; the other has opened its
\* request and has not been paid
C29_Witness ==
    /\ Idle
    /\ \E a \in Addr, b \in Addr :
          /\ employees[a].decryptedBonus # Zero
          /\ employees[a].decryptedBonus = BonusPaid(a)
          /\ PaidBonusRequests(a) # {}
          /\ employees[b].hasWithdrawn
          /\ employees[b].decryptedBonus = Zero
          /\ PaidBonusRequests(b) = {}

\* the funding requests whose encrypted amount equals the ETH sent
HonestFundings ==
    {i \in FundingRequests : requests[i].cleartext = opened[i].value}

\* callbackVerifyPool has accepted funding request i
Verified(i) == <<"callbackVerifyPool", i>> \in accepted

\* the oracle delivers the true decryption of request i to the callback the
\* request was opened for
AuthenticDelivery(i) ==
    /\ UNCHANGED hook
    /\ i \in DOMAIN requests
    /\ \/ /\ requests[i].selector = "callbackVerifyPool"
          /\ callbackVerifyPool(i, requests[i].cleartext)
       \/ /\ requests[i].selector = "callbackPayBonus"
          /\ callbackPayBonus(i, requests[i].cleartext)
       \/ /\ requests[i].selector = "callbackWithdrawRemaining"
          /\ callbackWithdrawRemaining(i, requests[i].cleartext)

\* the oracle delivers the authentic callback of every opened request, and
\* every transfer a callback makes comes back
SpecOracle ==
    /\ Spec
    /\ \A i \in RequestIds : WF_vars(AuthenticDelivery(i))
    /\ WF_vars(DoPayBonusReturn)
    /\ WF_vars(DoWithdrawRemainingReturn)

\* C30: under an oracle that delivers the authentic callback of every
\* opened request, every funding whose encrypted amount equals the ETH sent
\* is eventually accepted by callbackVerifyPool, and an accepted
\* verification leaves the pool request slot at 0.
C30_EventuallyVerified ==
    /\ \A i \in RequestIds : (i \in HonestFundings) ~> Verified(i)
    /\ [][(last'.op = "callbackVerifyPool" /\ last' # last)
              => decryptionRequestIdPool' = 0]_vars

\* the authentic callback of an honest funding that is not verified yet
\* would be accepted in every state between transactions
C30_AcceptedWheneverDelivered ==
    Idle =>
      \A i \in HonestFundings : ~Verified(i) => VerifyOutcome(i) = "ok"

\* the same for the fundings with an id other than 0 that no later request
\* has displaced from the pool slot
C30_AcceptedWhileOutstanding ==
    Idle =>
      \A i \in HonestFundings \ {0} :
          (~Verified(i) /\ decryptionRequestIdPool = i)
              => VerifyOutcome(i) = "ok"

\* the bonus withdrawBonus computed for request i: the participant's score
\* and tier applied to the encrypted pool the call found
FixedBonus(i) ==
    LET emp == employees[opened[i].sender]
    IN  Decrypt(ComputeBonus(emp.performance, emp.role,
                             asEuint64(opened[i].encryptedPool)))

\* callbackPayBonus, given the true decryption of request id, reverts in
\* contract state s
SettleBonusReverts(s, id) ==
    LET bonus == s.requests[id].cleartext
    IN  \/ s._status # 0
        \/ s.requestToEmployee[id] = ZeroAddress
        \/ bonus = Zero
        \/ BigLt(s.actualPool, bonus)

\* the contract state a whole callbackPayBonus transaction, delivering the
\* true decryption of request id with its transfer accepted, makes of s
SettleBonus(s, id) ==
    LET bonus == s.requests[id].cleartext
        to    == s.requestToEmployee[id]
    IN  IF SettleBonusReverts(s, id) THEN s
        ELSE [s EXCEPT
                 !.encryptedPool = FheSub(@, asEuint64(bonus)),
                 !.actualPool = BigSub(@, bonus),
                 !.employees = [@ EXCEPT ![to].decryptedBonus = bonus],
                 !.requestToEmployee = [@ EXCEPT ![id] = ZeroAddress],
                 !.paid = [@ EXCEPT ![to] = BigAdd(@, bonus)],
                 !.accepted = @ \cup {<<"callbackPayBonus", id>>}]

\* the state at the return of the transfer is the one callbackPayBonus
\* left when it made the transfer: the payee called nothing in between
NothingNested ==
    /\ frame.active
    /\ frame.op = "callbackPayBonus"
    /\ Snapshot = [frame.saved EXCEPT
                      !._status = 1,
                      !.encryptedPool = FheSub(@, asEuint64(frame.amount)),
                      !.actualPool = BigSub(@, frame.amount)]

\* two different bonus requests are open and their amounts together fit
\* in actualPool
TwoOutstanding(i, j) ==
    /\ i # j
    /\ i \in OpenBonusRequests
    /\ j \in OpenBonusRequests
    /\ BigLeq(BigAdd(requests[i].cleartext, requests[j].cleartext), actualPool)

\* C31: the amount a bonus request settles is the one withdrawBonus computed
\* from the participant's score and tier and the encrypted pool it found,
\* whatever fundings and settlements came in between; a settlement is the
\* state change SettleBonus describes; and for two outstanding bonus requests
\* whose amounts together do not exceed actualPool, settling them in either
\* order gives the same state, with the second accepted exactly when it
\* would have been accepted first.
C31_AmountFixedOrderFree ==
    /\ [](\A i \in BonusRequests : requests[i].cleartext = FixedBonus(i))
    /\ [](Idle =>
            \A i \in RequestIds, j \in RequestIds :
                TwoOutstanding(i, j) =>
                    /\ SettleBonus(SettleBonus(Snapshot, i), j)
                           = SettleBonus(SettleBonus(Snapshot, j), i)
                    /\ SettleBonusReverts(SettleBonus(Snapshot, i), j)
                           = SettleBonusReverts(Snapshot, j))
    /\ [][EntersPayBonus =>
            /\ frame'.amount = FixedBonus(frame'.requestId)
            /\ ~SettleBonusReverts(Snapshot, frame'.requestId)
            /\ actualPool' = SettleBonus(Snapshot, frame'.requestId).actualPool
            /\ encryptedPool'
                   = SettleBonus(Snapshot, frame'.requestId).encryptedPool]_vars
    /\ [][(NothingNested /\ ~frame'.active /\ last'.err = "ok")
            => Snapshot' = SettleBonus(frame.saved, frame.requestId)]_vars

\* two bonus requests were open together, and both are settled, the one
\* opened later first, each for the amount fixed at its opening
C31_Witness ==
    /\ Idle
    /\ last.op = "callbackPayBonus"
    /\ last.err = "ok"
    /\ \E i \in BonusRequests, j \in BonusRequests :
          /\ i < j
          /\ i = last.requestId
          /\ <<"callbackPayBonus", i>> \in accepted
          /\ <<"callbackPayBonus", j>> \in accepted
          /\ FixedBonus(i) # Zero
          /\ FixedBonus(j) # Zero
          /\ employees[opened[i].sender].decryptedBonus = FixedBonus(i)
          /\ employees[opened[j].sender].decryptedBonus = FixedBonus(j)

\* a bonus request was opened, a funding that changed the encrypted pool
\* followed, and the request was then settled for the amount fixed at its
\* opening
C31_FundedBetween ==
    /\ Idle
    /\ last.op = "callbackPayBonus"
    /\ last.err = "ok"
    /\ \E i \in BonusRequests, k \in FundingRequests :
          /\ i < k
          /\ i = last.requestId
          /\ <<"callbackPayBonus", i>> \in accepted
          /\ employees[opened[i].sender].decryptedBonus = FixedBonus(i)
          /\ FixedBonus(i) # Zero
          /\ Decrypt(encryptedPool)
                 # BigSub(opened[i].encryptedPool, FixedBonus(i))

\* two bonus requests are open and their amounts, both above 0, together
\* fit in actualPool
C31_TwoOpen ==
    /\ Idle
    /\ \E i \in RequestIds, j \in RequestIds :
          /\ TwoOutstanding(i, j)
          /\ requests[i].cleartext # Zero
          /\ requests[j].cleartext # Zero
          /\ ~SettleBonusReverts(Snapshot, i)
          /\ ~SettleBonusReverts(SettleBonus(Snapshot, i), j)

(***************************************************************************)
(* The client hook: its async functions, one action per stretch of code     *)
(* that runs between two awaits.                                            *)
(***************************************************************************)
isRefreshingRef == hook.ref["refreshState"]

\* the ref and the React state of a function's flag are written together
setInFlight(h, f, value) ==
    [h EXCEPT !.ref[f] = value, !.state[f] = value]

setCall(h, c, op, pc, passed) ==
    [h EXCEPT !.calls[c] = [op |-> op, pc |-> pc, passed |-> passed]]

\* the guard that lets only the operation's own flag stop an invocation
inFlightGuard_ownOnly(op) == hook.ref[op]

\* the in-flight guard at the head of a function: the invocation returns at
\* once when it holds
inFlightGuard(op) ==
    IF op = "refreshState" THEN isRefreshingRef
    ELSE isRefreshingRef \/ hook.ref[op]

\* the first await of an operation
FirstAwait(op) ==
    IF op \in {"fundPool", "commitPerformance"} THEN "encrypt" ELSE "send"

\* the pcs of an invocation that passed its guard and has not finished
InFlightPcs == {"encrypt", "send", "wait", "refresh", "resume", "read"}

\* the invocation to be made next
NextCall(c) ==
    /\ hook.calls[c].pc = "new"
    /\ \A d \in CallIds : d < c => hook.calls[d].pc # "new"

\* a function of the hook is invoked and runs to its first await: it
\* returns at the guard or at the parameter check, or sets its flag
hookInvoke(c, op, ready) ==
    /\ NextCall(c)
    /\ hook' = IF inFlightGuard(op) \/ ~ready
               THEN setCall(hook, c, op, "done", FALSE)
               ELSE setCall(setInFlight(hook, op, TRUE), c, op,
                            IF op = "refreshState" THEN "read"
                            ELSE FirstAwait(op), TRUE)
    /\ UNCHANGED ledgerVars

\* an await of an operation throws, or the receipt reports a failure: the
\* catch and the finally block run
hookThrows(c) ==
    /\ hook.calls[c].pc \in {"encrypt", "send", "wait"}
    /\ hook' = setCall(setInFlight(hook, hook.calls[c].op, FALSE), c,
                       hook.calls[c].op, "done", TRUE)
    /\ UNCHANGED ledgerVars

\* the encryption or the sending of the transaction resolves
hookProceeds(c) ==
    /\ hook.calls[c].pc \in {"encrypt", "send"}
    /\ hook' = setCall(hook, c, hook.calls[c].op,
                       IF hook.calls[c].pc = "encrypt" THEN "send" ELSE "wait",
                       TRUE)
    /\ UNCHANGED ledgerVars

\* the receipt arrives with status 1: a stale invocation goes to its
\* finally block; any other calls refreshState, which returns at its guard
\* or parameter check, or sets its flag and starts reading
hookReceipt(c, stale, ready) ==
    LET op == hook.calls[c].op
    IN  /\ hook.calls[c].pc = "wait"
        /\ hook' = IF stale
                   THEN setCall(setInFlight(hook, op, FALSE), c, op, "done", TRUE)
                   ELSE IF inFlightGuard("refreshState") \/ ~ready
                   THEN setCall(hook, c, op, "resume", TRUE)
                   ELSE setCall(setInFlight(hook, "refreshState", TRUE), c, op,
                                "refresh", TRUE)
        /\ UNCHANGED ledgerVars

\* the reads of refreshState end, by return or by throw: its finally block
\* clears its flag
hookRefreshEnds(c) ==
    /\ hook.calls[c].pc \in {"read", "refresh"}
    /\ hook' = setCall(setInFlight(hook, "refreshState", FALSE), c,
                       hook.calls[c].op,
                       IF hook.calls[c].pc = "read" THEN "done" ELSE "resume",
                       TRUE)
    /\ UNCHANGED ledgerVars

\* the operation resumes after its refreshState call: its finally block
hookResumes(c) ==
    /\ hook.calls[c].pc = "resume"
    /\ hook' = setCall(setInFlight(hook, hook.calls[c].op, FALSE), c,
                       hook.calls[c].op, "done", TRUE)
    /\ UNCHANGED ledgerVars

DoHookInvoke ==
    \E c \in CallIds, op \in HookFunctions, ready \in BOOLEAN :
        hookInvoke(c, op, ready)

DoHookThrows == \E c \in CallIds : hookThrows(c)

DoHookProceeds == \E c \in CallIds : hookProceeds(c)

DoHookReceipt ==
    \E c \in CallIds, stale \in BOOLEAN, ready \in BOOLEAN :
        hookReceipt(c, stale, ready)

DoHookRefreshEnds == \E c \in CallIds : hookRefreshEnds(c)

DoHookResumes == \E c \in CallIds : hookResumes(c)

NextHook ==
    \/ DoHookInvoke
    \/ DoHookThrows
    \/ DoHookProceeds
    \/ DoHookReceipt
    \/ DoHookRefreshEnds
    \/ DoHookResumes

SpecHook == Init /\ [][NextHook]_vars

\* the invocations of an operation that are past its guard and not finished
InFlight(op) ==
    {c \in CallIds : hook.calls[c].op = op /\ hook.calls[c].pc \in InFlightPcs}

\* a refreshState is running, called on its own or from an operation
RefreshRunning ==
    \E c \in CallIds : hook.calls[c].pc \in {"read", "refresh"}

\* this step takes invocation c of an operation past its guard
PassesGuard(c) ==
    /\ hook.calls[c].pc = "new"
    /\ hook'.calls[c].op \in HookOps
    /\ hook'.calls[c].pc \in InFlightPcs

\* this step finishes invocation c of an operation that was past its guard
Finishes(c) ==
    /\ hook.calls[c].op \in HookOps
    /\ hook.calls[c].pc \in InFlightPcs
    /\ hook'.calls[c].pc = "done"

\* C32: for each of the four operations of the hook at most one invocation
\* is past the in-flight guard, and the operation's flag (ref and state) is
\* set exactly while one is; no invocation passes the guard while a
\* refreshState is running or the operation's flag is set; the step that
\* finishes an invocation, after success or after a throw, leaves the flag
\* false.
C32_OneInFlight ==
    /\ [](\A op \in HookOps :
              /\ Cardinality(InFlight(op)) <= 1
              /\ hook.ref[op] = (InFlight(op) # {})
              /\ hook.state[op] = hook.ref[op])
    /\ [][\A c \in CallIds :
              /\ PassesGuard(c) =>
                     /\ ~RefreshRunning
                     /\ InFlight(hook'.calls[c].op) = {}
              /\ Finishes(c) =>
                     /\ ~hook'.ref[hook.calls[c].op]
                     /\ ~hook'.state[hook.calls[c].op]]_vars

\* three invocations of one operation: the first passed the guard and has
\* finished, the second passed the guard after that and is in its
\* refreshState call, the third came while the second was in flight and was
\* turned away
C32_Witness ==
    \E op \in HookOps :
        /\ \A c \in CallIds : hook.calls[c].op = op
        /\ hook.calls[1].pc = "done"
        /\ hook.calls[1].passed
        /\ hook.calls[2].pc = "refresh"
        /\ hook.calls[3].pc = "done"
        /\ ~hook.calls[3].passed
        /\ InFlight(op) = {2}
        /\ hook.ref[op]

\* an invocation is turned away while a refreshState called by another
\* operation is running
C32_TurnedAway ==
    /\ RefreshRunning
    /\ \E c \in CallIds, d \in CallIds :
          /\ hook.calls[c].pc = "refresh"
          /\ hook.calls[d].op \in HookOps
          /\ hook.calls[d].pc = "done"
          /\ ~hook.calls[d].passed
          /\ c < d

=============================================================================
